---- MODULE Spec2Model ----
(***************************************************************************)
(* Model of the ACME DNS-01 solver of cert-manager-webhook-dns-manager     *)
(* (src/main.go): Present and CleanUp of customDNSProviderSolver against a *)
(* keyed, namespaced store of dnsv1.Record resources, with loadConfig and  *)
(* getRecordName.                                                          *)
(*                                                                         *)
(* Strings the code indexes (the FQDN, the resource name, Spec.Name) are   *)
(* sequences of one-character strings; other strings are TLA+ strings.     *)
(* A Go map[string]string is the set of its <<key, value>> pairs.          *)
(* Each solver call is a process that advances from one store request to   *)
(* the next; the code between two store requests is local to the call and  *)
(* is part of the step that receives the earlier request's reply.          *)
(***************************************************************************)
EXTENDS Integers, Sequences, FiniteSets, TLC

\* ------------------------------------------------------------------ bounds
\* Number of call slots (calls that can be in flight at the same time).
NProcs == 2
\* Total number of Present/CleanUp calls started in one behaviour.
MaxCalls == 2
\* Longest domain among the domains enumerated for getRecordName.
MaxLen == 3
Procs == 1..NProcs

\* ----------------------------------------------------------------- strings
UpperChars == <<"A", "B", "C", "D", "E", "F", "G", "H", "I", "J", "K", "L", "M",
                "N", "O", "P", "Q", "R", "S", "T", "U", "V", "W", "X", "Y", "Z">>
LowerChars == <<"a", "b", "c", "d", "e", "f", "g", "h", "i", "j", "k", "l", "m",
                "n", "o", "p", "q", "r", "s", "t", "u", "v", "w", "x", "y", "z">>
DigitChars == {"0", "1", "2", "3", "4", "5", "6", "7", "8", "9"}

Range(s) == {s[i] : i \in DOMAIN s}

\* strings.ToLower, one character.
ToLowerChar(c) ==
  IF \E i \in DOMAIN UpperChars : UpperChars[i] = c
  THEN LowerChars[CHOOSE i \in DOMAIN UpperChars : UpperChars[i] = c]
  ELSE c

\* strings.ToLower
ToLower(s) == [i \in DOMAIN s |-> ToLowerChar(s[i])]

\* The character class [a-z0-9-] of the regular expression.
NameChar(c) == c \in Range(LowerChars) \cup DigitChars \cup {"-"}

\* regexp.MustCompile(`[^a-z0-9-]`).ReplaceAllString(s, "-")
ReplaceAllString(s) == [i \in DOMAIN s |-> IF NameChar(s[i]) THEN s[i] ELSE "-"]

\* strings.TrimRight(s, "-")
RECURSIVE TrimRight(_)
TrimRight(s) ==
  IF s # <<>> /\ s[Len(s)] = "-" THEN TrimRight(SubSeq(s, 1, Len(s) - 1)) ELSE s

\* Mutant: the characters outside the class are removed, not replaced.
getRecordNameStrip(fqdn) ==
  <<"a", "c", "m", "e", "-">> \o TrimRight(SelectSeq(ToLower(fqdn), NameChar))

\* Mutant: the name is not lower-cased.
getRecordNameNoLower(fqdn) ==
  <<"a", "c", "m", "e", "-">> \o TrimRight(ReplaceAllString(fqdn))

\* Mutant: the trailing hyphens are kept.
getRecordNameNoTrim(fqdn) == <<"a", "c", "m", "e", "-">> \o ReplaceAllString(ToLower(fqdn))

getRecordName(fqdn) ==
  <<"a", "c", "m", "e", "-">> \o TrimRight(ReplaceAllString(ToLower(fqdn)))

\* Mutant: every trailing dot is removed.
RemoveTrailingDotAll(fqdn) ==
  LET RECURSIVE strip(_)
      strip(s) == IF s # <<>> /\ s[Len(s)] = "." THEN strip(SubSeq(s, 1, Len(s) - 1)) ELSE s
  IN strip(fqdn)

\* Present, "remove trailing dot": Spec.Name is the FQDN, without its last
\* character when strings.HasSuffix(fqdn, ".").
RemoveTrailingDot(fqdn) ==
  IF fqdn # <<>> /\ fqdn[Len(fqdn)] = "." THEN SubSeq(fqdn, 1, Len(fqdn) - 1) ELSE fqdn

\* ------------------------------------------------------------------ config
\* ChallengeRequest.Config is nil or a JSON document.  A document is given by
\* what json.Unmarshal sees: not JSON at all ("invalid"), the literal null, or
\* an object whose "labels" and "extra" members are each absent, an object of
\* strings (a map) or a value of another type ("number").
AbsentMember == [t |-> "absent", m |-> {}]
NumberMember == [t |-> "number", m |-> {}]
MapMember(m) == [t |-> "map", m |-> m]

NilConfig == [kind |-> "nil", labels |-> AbsentMember, extra |-> AbsentMember]
InvalidJSON == [kind |-> "invalid", labels |-> AbsentMember, extra |-> AbsentMember]
NullJSON == [kind |-> "null", labels |-> AbsentMember, extra |-> AbsentMember]
ObjectJSON(l, e) == [kind |-> "object", labels |-> l, extra |-> e]

\* customDNSProviderConfig{}: both maps nil.
ZeroConfig == [Labels |-> {}, Extra |-> {}]

\* json.Unmarshal(raw, &cfg): the error and the (possibly partly filled) cfg.
Unmarshal(raw) ==
  CASE raw.kind = "invalid" -> [err |-> "ConfigDecodeError", cfg |-> ZeroConfig]
    [] raw.kind = "null" -> [err |-> "nil", cfg |-> ZeroConfig]
    [] OTHER ->
         [err |-> IF raw.labels.t = "number" \/ raw.extra.t = "number"
                  THEN "ConfigDecodeError" ELSE "nil",
          cfg |-> [Labels |-> raw.labels.m, Extra |-> raw.extra.m]]

\* Mutant: no base case, a nil config is decoded like an empty document.
loadConfigNoBase(cfgJSON) ==
  IF cfgJSON.kind = "nil" THEN [err |-> "ConfigDecodeError", cfg |-> ZeroConfig]
  ELSE Unmarshal(cfgJSON)

\* Mutant: a decode failure is swallowed and the zero config is used.
loadConfigSwallow(cfgJSON) ==
  IF cfgJSON.kind = "nil" THEN [err |-> "nil", cfg |-> ZeroConfig]
  ELSE [err |-> "nil", cfg |-> Unmarshal(cfgJSON).cfg]

loadConfig(cfgJSON) ==
  IF cfgJSON.kind = "nil" THEN [err |-> "nil", cfg |-> ZeroConfig]
  ELSE Unmarshal(cfgJSON)

\* --------------------------------------------------------------- resources
\* metadata.uid and metadata.resourceVersion are assigned by the store; the Go
\* zero value "" of both is 0 here.
NoUID == 0
NoRV == 0

\* dnsv1.Record{}: the Go zero value of the local variable dnsRecord.
ZeroRecord ==
  [ns |-> "", name |-> <<>>, uid |-> NoUID, rv |-> NoRV, labels |-> {},
   specName |-> <<>>, specType |-> "", specValue |-> "", specExtra |-> {}]

\* ------------------------------------------------------------------- state
VARIABLES
  store,     \* the resources the store holds
  rev,       \* the store's revision counter (source of uids and versions)
  deadline,  \* TRUE once the caller's deadline/cancellation signal has fired
  pc,        \* per call slot: "idle", or the store request the call waits in
  call,      \* per call slot: [op, ch], the method and its ChallengeRequest
  cfg,       \* per call slot: the local variable cfg
  obj,       \* per call slot: the local variable dnsRecord
  ops,       \* per call slot: the store requests issued so far, with replies
  solo,      \* per call slot: no other call was in flight during this one
  ncalls,    \* number of calls started
  hist       \* summaries of the last two calls that returned, oldest first

vars == <<store, rev, deadline, pc, call, cfg, obj, ops, solo, ncalls, hist>>

\* --------------------------------------------------------------- the store
\* The store is the Kubernetes API behind client.Client.  Its contract here
\* is the one the specification assumes of it: one resource per
\* (namespace, name), create rejected when the key exists, update rejected
\* when the resource is gone or the version sent is stale, delete by key.
\* Any request may also fail for a reason of the store's own ("Unavailable"),
\* and a request whose context is the caller's may end "Cancelled" once the
\* caller's signal has fired; a failed request changes nothing.
At(s, ns, name) == {r \in s : r.ns = ns /\ r.name = name}

\* Replies that are failures of the store itself, for a request given ctx.
Failures(ctx) ==
  {"Unavailable"} \cup (IF ctx = "Caller" /\ deadline THEN {"Cancelled"} ELSE {})

\* client.Get: the error and the object as it is left in *obj.
StoreGet(s, ns, name, o) ==
  IF At(s, ns, name) = {} THEN [err |-> "NotFound", obj |-> o]
  ELSE [err |-> "nil", obj |-> CHOOSE r \in At(s, ns, name) : TRUE]

\* client.Create: a fresh uid and version; AlreadyExists when the key is taken.
StoreCreate(s, n, o) ==
  IF At(s, o.ns, o.name) # {} THEN [err |-> "AlreadyExists", store |-> s]
  ELSE [err |-> "nil", store |-> s \cup {[o EXCEPT !.uid = n, !.rv = n]}]

\* client.Update: NotFound when the key is free, Conflict when the uid or the
\* version sent is not the stored one, else the resource is replaced.
StoreUpdate(s, n, o) ==
  LET cur == At(s, o.ns, o.name) IN
  IF cur = {} THEN [err |-> "NotFound", store |-> s]
  ELSE IF \E r \in cur : r.uid # o.uid \/ r.rv # o.rv
       THEN [err |-> "Conflict", store |-> s]
       ELSE [err |-> "nil", store |-> (s \ cur) \cup {[o EXCEPT !.rv = n]}]

\* client.Delete without preconditions: by namespace and name only.
StoreDelete(s, o) ==
  IF At(s, o.ns, o.name) = {} THEN [err |-> "NotFound", store |-> s]
  ELSE [err |-> "nil", store |-> s \ At(s, o.ns, o.name)]

\* ------------------------------------------------------------- the solver
\* ChallengeRequest: ResolvedFQDN, Key, ResourceNamespace and Config (UID is
\* only logged).
Challenge(fqdn, key, ns, config) ==
  [fqdn |-> fqdn, key |-> key, ns |-> ns, config |-> config]

NoChallenge == Challenge(<<>>, "", "", NilConfig)
NoCall == [op |-> "none", ch |-> NoChallenge]

InFlight(q) == pc[q] # "idle"

\* Mutant: the store requests of Present are given the caller's context.
PresentCtxCaller == "Caller"

\* Present: ctx := context.Background()
PresentCtx == "Background"

\* CleanUp: ctx := context.Background()
CleanUpCtx == "Background"

\* Mutant: every error of a fetch is ignored, not only not-found.
IgnoreEveryError(err) == "nil"

\* client.IgnoreNotFound(err)
IgnoreNotFound(err) == IF err = "NotFound" THEN "nil" ELSE err

\* Mutant: the fields of a fresh object are set, dropping what Get decoded.
DesiredBodyFresh(o, ch, c) ==
  [ZeroRecord EXCEPT !.name = o.name, !.ns = ch.ns, !.labels = c.Labels,
                     !.specName = RemoveTrailingDot(ch.fqdn), !.specType = "TXT",
                     !.specValue = ch.key, !.specExtra = c.Extra]

\* Mutant: the value of a record that exists is kept (first write wins).
DesiredBodyKeepValue(o, ch, c) ==
  [o EXCEPT !.ns = ch.ns, !.labels = c.Labels,
            !.specName = RemoveTrailingDot(ch.fqdn), !.specType = "TXT",
            !.specValue = IF o.uid # NoUID THEN o.specValue ELSE ch.key,
            !.specExtra = c.Extra]

\* Mutant: the config's labels and extra are merged into those of the record.
DesiredBodyMerge(o, ch, c) ==
  [o EXCEPT !.ns = ch.ns, !.labels = o.labels \cup c.Labels,
            !.specName = RemoveTrailingDot(ch.fqdn), !.specType = "TXT",
            !.specValue = ch.key, !.specExtra = o.specExtra \cup c.Extra]

\* Mutant: the namespace of dnsRecord is not set.
DesiredBodyNoNamespace(o, ch, c) ==
  [o EXCEPT !.labels = c.Labels,
            !.specName = RemoveTrailingDot(ch.fqdn), !.specType = "TXT",
            !.specValue = ch.key, !.specExtra = c.Extra]

\* Present: the assignments to dnsRecord between Get and Create/Update.
DesiredBody(o, ch, c) ==
  [o EXCEPT !.ns = ch.ns, !.labels = c.Labels,
            !.specName = RemoveTrailingDot(ch.fqdn), !.specType = "TXT",
            !.specValue = ch.key, !.specExtra = c.Extra]

\* Mutant: Present always creates.
UseCreateAlways(o) == TRUE

\* Present: if dnsRecord.UID == "" then Create else Update.
UseCreate(o) == o.uid = NoUID

\* Mutant: a write answered Conflict is retried from the fetch.
AfterWriteRetry(err) == IF err = "Conflict" THEN "PresentGet" ELSE "return"

\* Present: after Create/Update the call returns, the error or nil.
AfterWrite(err) == "return"

\* Mutant: CleanUp returns after the fetch whatever it found.
CleanUpReturnsEarlyAlways(err) == TRUE

\* Mutant: CleanUp goes on to Delete when the fetch found nothing.
CleanUpReturnsEarlyOtherOnly(err) == err \notin {"nil", "NotFound"}

\* CleanUp: if err := Get(...); err != nil { return IgnoreNotFound(err) }
CleanUpReturnsEarly(err) == err # "nil"

\* Mutant: a Delete answered not-found counts as success.
CleanUpResultIgnoreNotFound(err) == IF err = "NotFound" THEN "nil" ELSE err

\* CleanUp: return c.client.Delete(ctx, &dnsRecord)
CleanUpResult(err) == err

\* A store request as remembered: the method, the reply, the object the call
\* holds after a Get or sends with a write, and whether the caller's signal
\* had fired when the reply came.
Op(name, res, o) == [op |-> name, res |-> res, obj |-> o, fired |-> deadline]

Push(h, e) == IF Len(h) < 2 THEN Append(h, e) ELSE Append(Tail(h), e)

\* What is remembered of a call that returned: its request, its result, its
\* store requests, and the resources at its identity when it returned.
Summary(c, err, o, s, alone) ==
  [op |-> c.op, ch |-> c.ch, ret |-> err, solo |-> alone, ops |-> o,
   after |-> At(s, c.ch.ns, getRecordName(c.ch.fqdn))]

\* Slot p returns err, having issued the requests o and left the store s.
Return(p, err, o, s) ==
  /\ pc' = [pc EXCEPT ![p] = "idle"]
  /\ call' = [call EXCEPT ![p] = NoCall]
  /\ cfg' = [cfg EXCEPT ![p] = ZeroConfig]
  /\ obj' = [obj EXCEPT ![p] = ZeroRecord]
  /\ ops' = [ops EXCEPT ![p] = <<>>]
  /\ hist' = Push(hist, Summary(call[p], err, o, s, solo[p]))

\* A call enters slot p, the first free one, as one of the first n calls.
EnterWithin(p, n) ==
  /\ ~InFlight(p)
  /\ \A q \in Procs : q < p => InFlight(q)
  /\ ncalls < n
  /\ ncalls' = ncalls + 1
  /\ solo' = [q \in Procs |-> IF q = p THEN \A r \in Procs \ {p} : ~InFlight(r)
                              ELSE solo[q] /\ ~InFlight(q)]

Enter(p) == EnterWithin(p, MaxCalls)

\* Present up to its Get request: loadConfig, and the name of dnsRecord.
PresentStartWithin(p, ch, n) ==
  /\ EnterWithin(p, n)
  /\ LET lc == loadConfig(ch.config) IN
     IF lc.err # "nil"
     THEN /\ hist' = Push(hist, Summary([op |-> "Present", ch |-> ch], lc.err,
                                        <<>>, store, solo'[p]))
          /\ UNCHANGED <<pc, call, cfg, obj>>
     ELSE /\ pc' = [pc EXCEPT ![p] = "PresentGet"]
          /\ call' = [call EXCEPT ![p] = [op |-> "Present", ch |-> ch]]
          /\ cfg' = [cfg EXCEPT ![p] = lc.cfg]
          /\ obj' = [obj EXCEPT ![p] = [ZeroRecord EXCEPT !.name = getRecordName(ch.fqdn)]]
          /\ hist' = hist
  /\ UNCHANGED <<store, rev, deadline, ops>>

PresentStart(p, ch) == PresentStartWithin(p, ch, MaxCalls)

\* Present called once more when no call is in flight and MaxCalls calls
\* have been started: the retry of the layer above once contention stopped.
PresentRetry(p, ch) ==
  /\ ncalls = MaxCalls
  /\ \A q \in Procs : ~InFlight(q)
  /\ PresentStartWithin(p, ch, MaxCalls + 1)

\* The replies a Get can have.
GetReplies(ctx, ns, name, o) ==
  {StoreGet(store, ns, name, o)} \cup {[err |-> f, obj |-> o] : f \in Failures(ctx)}

\* The replies a write can have.
WriteReplies(ctx, applied) ==
  {applied} \cup {[err |-> f, store |-> store] : f \in Failures(ctx)}

\* Present from the reply of Get to its Create/Update request.
PresentGet(p) ==
  /\ pc[p] = "PresentGet"
  /\ \E r \in GetReplies(PresentCtx, call[p].ch.ns, obj[p].name, obj[p]) :
       LET o == Append(ops[p], Op("Get", r.err, r.obj)) IN
       IF IgnoreNotFound(r.err) # "nil"
       THEN Return(p, r.err, o, store)
       ELSE /\ pc' = [pc EXCEPT ![p] = "PresentWrite"]
            /\ ops' = [ops EXCEPT ![p] = o]
            /\ obj' = [obj EXCEPT ![p] = DesiredBody(r.obj, call[p].ch, cfg[p])]
            /\ UNCHANGED <<call, cfg, hist>>
  /\ UNCHANGED <<store, rev, deadline, solo, ncalls>>

\* Present from the reply of Create/Update to its return.
PresentWrite(p) ==
  /\ pc[p] = "PresentWrite"
  /\ LET create == UseCreate(obj[p])
         applied == IF create THEN StoreCreate(store, rev + 1, obj[p])
                    ELSE StoreUpdate(store, rev + 1, obj[p])
     IN \E r \in WriteReplies(PresentCtx, applied) :
          LET o == Append(ops[p], Op(IF create THEN "Create" ELSE "Update", r.err, obj[p])) IN
          /\ store' = r.store
          /\ rev' = IF r.err = "nil" THEN rev + 1 ELSE rev
          /\ IF r.err = "nil" \/ AfterWrite(r.err) = "return"
             THEN Return(p, r.err, o, r.store)
             ELSE /\ pc' = [pc EXCEPT ![p] = AfterWrite(r.err)]
                  /\ ops' = [ops EXCEPT ![p] = o]
                  /\ UNCHANGED <<call, cfg, obj, hist>>
  /\ UNCHANGED <<deadline, solo, ncalls>>

\* CleanUp up to its Get request.
CleanUpStart(p, ch) ==
  /\ Enter(p)
  /\ pc' = [pc EXCEPT ![p] = "CleanUpGet"]
  /\ call' = [call EXCEPT ![p] = [op |-> "CleanUp", ch |-> ch]]
  /\ obj' = [obj EXCEPT ![p] = [ZeroRecord EXCEPT !.name = getRecordName(ch.fqdn)]]
  /\ UNCHANGED <<store, rev, deadline, cfg, ops, hist>>

\* CleanUp from the reply of Get to its Delete request.
CleanUpGet(p) ==
  /\ pc[p] = "CleanUpGet"
  /\ \E r \in GetReplies(CleanUpCtx, call[p].ch.ns, obj[p].name, obj[p]) :
       LET o == Append(ops[p], Op("Get", r.err, r.obj)) IN
       IF CleanUpReturnsEarly(r.err)
       THEN Return(p, IgnoreNotFound(r.err), o, store)
       ELSE /\ pc' = [pc EXCEPT ![p] = "CleanUpDelete"]
            /\ ops' = [ops EXCEPT ![p] = o]
            /\ obj' = [obj EXCEPT ![p] = r.obj]
            /\ UNCHANGED <<call, cfg, hist>>
  /\ UNCHANGED <<store, rev, deadline, solo, ncalls>>

\* CleanUp from the reply of Delete to its return.
CleanUpDelete(p) ==
  /\ pc[p] = "CleanUpDelete"
  /\ \E r \in WriteReplies(CleanUpCtx, StoreDelete(store, obj[p])) :
       /\ store' = r.store
       /\ Return(p, CleanUpResult(r.err),
                 Append(ops[p], Op("Delete", r.err, obj[p])), r.store)
  /\ UNCHANGED <<rev, deadline, solo, ncalls>>

\* The caller's deadline/cancellation signal fires.
DeadlineFires ==
  /\ ~deadline
  /\ \E p \in Procs : InFlight(p)
  /\ deadline' = TRUE
  /\ UNCHANGED <<store, rev, pc, call, cfg, obj, ops, solo, ncalls, hist>>

\* ------------------------------------------------------------ the behaviours
FqdnA == <<"a", ".">>
FqdnA2 == <<"a", ".", ".">>
FqdnB == <<"B">>

ConfigKV == ObjectJSON(MapMember({<<"k", "v">>}), MapMember({<<"e", "x">>}))
ConfigBadType == ObjectJSON(NumberMember, MapMember({<<"e", "x">>}))

\* The requests the calls are drawn from: two tokens for one identity, spelt
\* with one and with two trailing dots, with no, a good and two bad configs,
\* and a second identity in another namespace.
Challenges ==
  { Challenge(FqdnA, "t1", "default", NilConfig),
    Challenge(FqdnA2, "t2", "default", ConfigKV),
    Challenge(FqdnA, "t1", "default", InvalidJSON),
    Challenge(FqdnA, "t2", "default", ConfigBadType),
    Challenge(FqdnB, "t1", "other", NullJSON) }

\* A resource left at the first identity by an earlier validation.
Leftover ==
  [ns |-> "default", name |-> getRecordName(FqdnA), uid |-> 1, rv |-> 1,
   labels |-> {<<"old", "1">>}, specName |-> <<"a">>, specType |-> "TXT",
   specValue |-> "t0", specExtra |-> {<<"old", "2">>}]

Init ==
  /\ store \in {{}, {Leftover}}
  /\ rev = 1
  /\ deadline = FALSE
  /\ pc = [p \in Procs |-> "idle"]
  /\ call = [p \in Procs |-> NoCall]
  /\ cfg = [p \in Procs |-> ZeroConfig]
  /\ obj = [p \in Procs |-> ZeroRecord]
  /\ ops = [p \in Procs |-> <<>>]
  /\ solo = [p \in Procs |-> TRUE]
  /\ ncalls = 0
  /\ hist = <<>>

Next ==
  \/ \E p \in Procs, ch \in Challenges : PresentStart(p, ch)
  \/ \E p \in Procs : PresentGet(p)
  \/ \E p \in Procs : PresentWrite(p)
  \/ \E p \in Procs, ch \in Challenges : CleanUpStart(p, ch)
  \/ \E p \in Procs : CleanUpGet(p)
  \/ \E p \in Procs : CleanUpDelete(p)

Spec == Init /\ [][Next]_vars

\* The same calls, with a caller whose deadline/cancellation signal can fire
\* while calls are in flight.
DeadlineChallenges ==
  { Challenge(FqdnA, "t1", "default", NilConfig),
    Challenge(FqdnA2, "t2", "default", ConfigKV) }

NextDeadline ==
  \/ \E p \in Procs, ch \in DeadlineChallenges : PresentStart(p, ch)
  \/ \E p \in Procs : PresentGet(p)
  \/ \E p \in Procs : PresentWrite(p)
  \/ \E p \in Procs, ch \in DeadlineChallenges : CleanUpStart(p, ch)
  \/ \E p \in Procs : CleanUpGet(p)
  \/ \E p \in Procs : CleanUpDelete(p)
  \/ DeadlineFires

SpecDeadline == Init /\ [][NextDeadline]_vars

\* ---------------------------------------------------------------- the claims
Returned == {hist[i] : i \in DOMAIN hist}

\* The fields of a resource that Present sets.
Body(r) ==
  [labels |-> r.labels, recordName |-> r.specName, recordType |-> r.specType,
   recordValue |-> r.specValue, extra |-> r.specExtra]

\* No request of the call failed for a reason of the store's own.
Faultless(h) == \A i \in DOMAIN h.ops : h.ops[i].res \notin {"Unavailable", "Cancelled"}

Writes(o) == {i \in DOMAIN o : o[i].op \in {"Create", "Update", "Delete"}}
Gets(o) == {i \in DOMAIN o : o[i].op = "Get"}

\* hist holds two calls for the same request, the second run with no other
\* call in flight, hence from the return of the first with nothing in between.
Successive(op1, op2) ==
  /\ Len(hist) = 2
  /\ hist[1].op = op1 /\ hist[2].op = op2
  /\ hist[1].ch = hist[2].ch
  /\ hist[2].solo

\* C1: two successive Present(ch) calls with the identical ch, the first
\* successful and the second not failed by the store itself: the second returns
\* no error, exactly one resource is at the identity, it is the same resource
\* (no second creation) and the fields Present sets are as after the first.
C1_PresentTwice ==
  (Successive("Present", "Present") /\ hist[1].ret = "nil" /\ Faultless(hist[2]))
  => /\ hist[2].ret = "nil"
     /\ Cardinality(hist[2].after) = 1
     /\ Cardinality(hist[1].after) = 1
     /\ \A r1 \in hist[1].after, r2 \in hist[2].after :
          Body(r2) = Body(r1) /\ r2.uid = r1.uid

C1_Witness ==
  /\ Successive("Present", "Present")
  /\ hist[1].ret = "nil" /\ hist[2].ret = "nil"
  /\ Len(hist[1].ops) = 2 /\ hist[1].ops[2].op = "Create"
  /\ Len(hist[2].ops) = 2 /\ hist[2].ops[2].op = "Update"

\* C2: a successful Present(ch) followed, with no other call in between, by a
\* successful CleanUp(ch) leaves no resource at the identity of ch.
C2_PresentThenCleanUp ==
  (Successive("Present", "CleanUp") /\ hist[1].ret = "nil" /\ hist[2].ret = "nil")
  => hist[2].after = {}

C2_Witness ==
  /\ Successive("Present", "CleanUp")
  /\ hist[1].ret = "nil" /\ hist[2].ret = "nil"
  /\ hist[1].after # {}
  /\ Len(hist[2].ops) = 2 /\ hist[2].ops[2].op = "Delete" /\ hist[2].ops[2].res = "nil"

\* C3: a CleanUp whose fetch finds no resource at the identity returns success
\* and issues no other store request: no create, update or delete; run alone,
\* it leaves the identity as empty as it found it.
C3_CleanUpNothing ==
  \A h \in Returned :
    (h.op = "CleanUp" /\ h.ops # <<>> /\ h.ops[1].res = "NotFound")
    => /\ h.ret = "nil" /\ Len(h.ops) = 1 /\ Writes(h.ops) = {}
       /\ h.solo => h.after = {}

C3_Witness ==
  /\ Len(hist) = 2
  /\ hist[1].op = "CleanUp" /\ hist[1].ret = "nil" /\ Len(hist[1].ops) = 2
  /\ hist[2].op = "CleanUp" /\ hist[2].ret = "nil" /\ hist[2].ch = hist[1].ch
  /\ hist[2].ops[1].res = "NotFound" /\ hist[2].solo

\* The name of the record for domain d: d with exactly one trailing "." removed.
IsRecordNameOf(n, d) ==
  IF d # <<>> /\ d[Len(d)] = "." THEN n \o <<".">> = d ELSE n = d

\* C4: a Present whose fetch finds no resource issues exactly one write, a
\* create, of a resource with namespace = owner, name = the derived name,
\* labels and extra = the config's, recordName = the domain less one trailing
\* ".", recordType = "TXT" and recordValue = the token; a create the store
\* accepts leaves exactly that resource at the identity.
C4_CreateWhenAbsent ==
  \A h \in Returned :
    (h.op = "Present" /\ h.ops # <<>> /\ h.ops[1].res = "NotFound")
    => /\ Len(h.ops) = 2
       /\ h.ops[2].op = "Create"
       /\ LET o == h.ops[2].obj IN
          /\ o.ns = h.ch.ns
          /\ o.name = getRecordName(h.ch.fqdn)
          /\ o.labels = h.ch.config.labels.m
          /\ o.specExtra = h.ch.config.extra.m
          /\ IsRecordNameOf(o.specName, h.ch.fqdn)
          /\ o.specType = "TXT"
          /\ o.specValue = h.ch.key
          /\ h.ops[2].res = "nil"
             => /\ Cardinality(h.after) = 1
                /\ \A r \in h.after :
                     Body(r) = Body(o) /\ r.ns = o.ns /\ r.name = o.name /\ r.uid # NoUID

C4_Witness ==
  \E h \in Returned :
    /\ h.op = "Present" /\ h.ch.fqdn = FqdnA2 /\ h.ret = "nil"
    /\ h.ops[1].res = "NotFound" /\ h.ops[2].op = "Create"
    /\ \E r \in h.after : r.specName = FqdnA /\ r.labels # {}

\* C5: a Present whose fetch finds a resource issues exactly one write, an
\* update carrying the uid and version the fetch returned; after an update the
\* store accepts, the resource at the identity has the uid it had at the fetch.
C5_UpdateWhenFound ==
  \A h \in Returned :
    (h.op = "Present" /\ h.ops # <<>> /\ h.ops[1].res = "nil")
    => /\ Len(h.ops) = 2
       /\ h.ops[2].op = "Update"
       /\ h.ops[1].obj.uid # NoUID
       /\ h.ops[2].obj.uid = h.ops[1].obj.uid
       /\ h.ops[2].obj.rv = h.ops[1].obj.rv
       /\ h.ops[2].res = "nil"
          => /\ Cardinality(h.after) = 1
             /\ \A r \in h.after : r.uid = h.ops[1].obj.uid

C5_Witness ==
  \E h \in Returned :
    /\ h.op = "Present" /\ h.ret = "nil"
    /\ h.ops[1].res = "nil" /\ h.ops[1].obj.specValue = "t0"
    /\ h.ops[2].op = "Update"
    /\ \E r \in h.after : r.uid = Leftover.uid /\ r.specValue = h.ch.key

\* A config that is present and cannot be decoded into the two maps.
Undecodable(raw) ==
  \/ raw.kind = "invalid"
  \/ raw.kind = "object" /\ (raw.labels.t = "number" \/ raw.extra.t = "number")

\* C6: a Present whose config is present but cannot be decoded returns the
\* decode error without having issued any store request.
C6_BadConfigNoStoreRequest ==
  \A h \in Returned :
    (h.op = "Present" /\ Undecodable(h.ch.config))
    => h.ret = "ConfigDecodeError" /\ h.ops = <<>>

C6_Witness ==
  /\ Len(hist) = 2
  /\ hist[1].op = "Present" /\ hist[1].ch.config = InvalidJSON /\ hist[1].after = {Leftover}
  /\ hist[2].op = "Present" /\ hist[2].ch.config = ConfigBadType /\ hist[2].after = {Leftover}

\* A request the store did not carry out (a fetch answered not-found is not one).
Failed(x) == x.res # "nil" /\ ~(x.op = "Get" /\ x.res = "NotFound")

\* C7: a call that returns an error has had no write accepted by the store;
\* a request that fails is the last one of its call and its error is what the
\* call returns.
C7_ErrorMeansNoWrite ==
  \A h \in Returned :
    /\ h.ret # "nil" => \A i \in Writes(h.ops) : h.ops[i].res # "nil"
    /\ \A i \in DOMAIN h.ops :
         Failed(h.ops[i]) => i = Len(h.ops) /\ h.ret = h.ops[i].res

C7_Witness ==
  /\ Len(hist) = 2
  /\ hist[1].op = "Present" /\ hist[1].ret = "Unavailable" /\ Len(hist[1].ops) = 1
  /\ hist[2].op = "CleanUp" /\ hist[2].ret = "Unavailable" /\ Len(hist[2].ops) = 2

\* The context given to the store request slot p waits in.
CtxOf(p) == IF call[p].op = "Present" THEN PresentCtx ELSE CleanUpCtx

\* C8 as stated: every store request is given the caller's signal, so a call
\* blocked in a store request can be ended Cancelled once the signal has fired.
C8_CallerSignalHonoured ==
  \A p \in Procs :
    (InFlight(p) /\ deadline) => "Cancelled" \in Failures(CtxOf(p))

\* C8 as amended: every store request of Present and CleanUp is given the
\* background context: whether or not the caller's signal has fired, a request
\* a call waits in cannot end Cancelled, and no request and no call ever has.
C8_BackgroundContext ==
  /\ \A p \in Procs :
       /\ InFlight(p) => "Cancelled" \notin Failures(CtxOf(p))
       /\ \A i \in DOMAIN ops[p] : ops[p][i].res # "Cancelled"
  /\ \A h \in Returned :
       /\ h.ret # "Cancelled"
       /\ \A i \in DOMAIN h.ops : h.ops[i].res # "Cancelled"

C8_Witness ==
  /\ deadline
  /\ \E p \in Procs : pc[p] = "PresentWrite" /\ ops[p][1].fired
  /\ \E h \in Returned : h.op = "CleanUp" /\ Len(h.ops) = 2 /\ h.ops[1].fired

\* C9 as stated: a CleanUp, run alone, whose fetch finds a record holding a
\* key other than the challenge's leaves that record in place.
C9_CleanUpOnlyOwnKey ==
  \A h \in Returned :
    (/\ h.op = "CleanUp" /\ h.solo /\ h.ops # <<>>
     /\ h.ops[1].res = "nil" /\ h.ops[1].obj.specValue # h.ch.key)
    => h.ops[1].obj \in h.after

\* C10: the store never holds two resources at one identity; a Present issues
\* at most one fetch and at most one write, and a write the store rejects ends
\* the call, which returns that rejection.
C10_OnePerKeyNoRetry ==
  /\ \A r1, r2 \in store : (r1.ns = r2.ns /\ r1.name = r2.name) => r1 = r2
  /\ \A h \in Returned :
       h.op = "Present"
       => /\ Cardinality(Gets(h.ops)) <= 1
          /\ Cardinality(Writes(h.ops)) <= 1
          /\ \A i \in Writes(h.ops) : h.ops[i].res # "nil" => h.ret = h.ops[i].res
  /\ \A p \in Procs :
       call[p].op = "Present"
       => Cardinality(Gets(ops[p])) <= 1 /\ Writes(ops[p]) = {}

C10_Witness ==
  /\ Len(hist) = 2
  /\ hist[1].op = "Present" /\ hist[2].op = "Present"
  /\ hist[1].ch.ns = hist[2].ch.ns
  /\ getRecordName(hist[1].ch.fqdn) = getRecordName(hist[2].ch.fqdn)
  /\ ~hist[2].solo
  /\ hist[1].ret = "nil"
  /\ hist[2].ret \in {"Conflict", "AlreadyExists"}
  /\ Cardinality(hist[2].after) = 1

\* ------------------------------------------------- validations that collide
\* Calls for one owner and for domains that all derive the name "acme-a-b":
\* the same domain with two tokens, a spelling that differs in case and in a
\* replaced character, and one with a trailing character that is trimmed.
DomAB == <<"a", ".", "b">>
DomAB2 == <<"A", "_", "b">>
DomAB3 == <<"a", ".", "b", "_">>

SharedChallenges ==
  { Challenge(DomAB, "t1", "default", NilConfig),
    Challenge(DomAB, "t2", "default", NilConfig),
    Challenge(DomAB2, "t2", "default", NilConfig),
    Challenge(DomAB3, "t1", "default", NilConfig) }

NextShared ==
  \/ \E p \in Procs, ch \in SharedChallenges : PresentStart(p, ch)
  \/ \E p \in Procs : PresentGet(p)
  \/ \E p \in Procs : PresentWrite(p)
  \/ \E p \in Procs, ch \in SharedChallenges : CleanUpStart(p, ch)
  \/ \E p \in Procs : CleanUpGet(p)
  \/ \E p \in Procs : CleanUpDelete(p)

SpecShared == Init /\ [][NextShared]_vars

C11_WitnessOverwrite ==
  /\ Len(hist) = 2
  /\ hist[1].op = "Present" /\ hist[1].ret = "nil" /\ hist[1].ch.key = "t1"
  /\ hist[2].op = "Present" /\ hist[2].ret = "nil" /\ hist[2].ch.key = "t2"
  /\ hist[1].ch.fqdn = hist[2].ch.fqdn /\ hist[1].ch.ns = hist[2].ch.ns
  /\ hist[2].ops[1].obj.specValue = "t1"
  /\ \A r \in hist[2].after : r.specValue = "t2"

\* --------------------------------------------------- several identities
\* Calls for three identities: one name in two namespaces, and a second name.
FrameChallenges ==
  { Challenge(FqdnA, "t1", "default", NilConfig),
    Challenge(FqdnA, "t2", "other", NilConfig),
    Challenge(FqdnB, "t1", "default", NilConfig) }

NextFrame ==
  \/ \E p \in Procs, ch \in FrameChallenges : PresentStart(p, ch)
  \/ \E p \in Procs : PresentGet(p)
  \/ \E p \in Procs : PresentWrite(p)
  \/ \E p \in Procs, ch \in FrameChallenges : CleanUpStart(p, ch)
  \/ \E p \in Procs : CleanUpGet(p)
  \/ \E p \in Procs : CleanUpDelete(p)

SpecFrame == Init /\ [][NextFrame]_vars

\* The call in slot p is for the identity (ns, name).
IdentityOf(p, ns, name) ==
  call[p].ch.ns = ns /\ name = getRecordName(call[p].ch.fqdn)

\* Every object a call has fetched is the one at the call's identity.
ReadsOwnKey ==
  \A p \in Procs : \A i \in Gets(ops[p]) :
    ops[p][i].res = "nil" => IdentityOf(p, ops[p][i].obj.ns, ops[p][i].obj.name)

\* C12: in every step, each resource that appears in, disappears from or
\* changes in the store is at the identity of a call in flight that takes the
\* step; resources at every other (namespace, name) are as they were. A call
\* fetches only the resource at its own identity.
C12_OnlyOwnKey ==
  /\ []ReadsOwnKey
  /\ [][\A r \in (store \ store') \cup (store' \ store) :
          \E p \in Procs :
            InFlight(p) /\ pc'[p] # pc[p] /\ IdentityOf(p, r.ns, r.name)]_vars

\* The leftover resource is untouched beside a resource of the same name that
\* a Present created in the other namespace and one it created under another
\* name.
C12_Witness ==
  /\ Leftover \in store
  /\ Cardinality(store) = 3
  /\ \E r \in store : r.ns = "other" /\ r.name = Leftover.name /\ r.specValue = "t2"
  /\ \E r \in store : r.ns = "default" /\ r.name = getRecordName(FqdnB)
  /\ Len(hist) = 2 /\ ~hist[2].solo

\* ------------------------------------------------------- one call, any input
\* A single Present, for every domain of up to MaxLen characters over an
\* alphabet with a lower-case letter, an upper-case letter, a digit, the
\* hyphen, the dot and a character outside the class; for two domains of the
\* specification's examples; and for every shape of config.
Alphabet == {"a", "Z", "0", "-", ".", "_"}

RECURSIVE Strings(_)
Strings(n) ==
  IF n = 0 THEN {<<>>}
  ELSE LET S == Strings(n - 1) IN S \cup {Append(x, c) : x \in S, c \in Alphabet}

ExampleCom == <<"E", "x", "a", "m", "p", "l", "e", ".", "C", "O", "M", ".">>
ScenarioFqdn ==
  <<"_", "a", "c", "m", "e", "-", "c", "h", "a", "l", "l", "e", "n", "g", "e", ".", "f", "o", "o", ".", "e", "x", "a", "m", "p", "l", "e", ".", "c", "o", "m", ".">>

ScenarioChallenge == Challenge(ScenarioFqdn, "abc123", "default", NilConfig)

Members == {AbsentMember, NumberMember, MapMember({}), MapMember({<<"k", "v">>})}

InputConfigs ==
  {NilConfig, InvalidJSON, NullJSON} \cup {ObjectJSON(l, e) : l \in Members, e \in Members}

InputChallenges ==
  {Challenge(d, "t1", "default", NilConfig) : d \in Strings(MaxLen) \cup {ExampleCom}}
  \cup {ScenarioChallenge}
  \cup {Challenge(FqdnA, "t1", "default", c) : c \in InputConfigs}

NextInputs ==
  \/ \E p \in Procs, ch \in InputChallenges : ncalls = 0 /\ PresentStart(p, ch)
  \/ \E p \in Procs : PresentGet(p)
  \/ \E p \in Procs : PresentWrite(p)

SpecInputs == Init /\ [][NextInputs]_vars

AcmePrefix == <<"a", "c", "m", "e", "-">>
LowerOrDigit == Range(LowerChars) \cup DigitChars

\* n is non-empty and lower-case, and is "acme-" or "acme-" followed by
\* characters of [a-z0-9-] the last of which is of [a-z0-9].
WellFormedName(n) ==
  /\ Len(n) >= Len(AcmePrefix)
  /\ SubSeq(n, 1, Len(AcmePrefix)) = AcmePrefix
  /\ \A i \in 1..Len(n) : n[i] \notin Range(UpperChars)
  /\ \/ Len(n) = Len(AcmePrefix)
     \/ /\ \A i \in (Len(AcmePrefix) + 1)..Len(n) : n[i] \in LowerOrDigit \cup {"-"}
        /\ n[Len(n)] \in LowerOrDigit

\* d has a letter or a digit.
HasAlnum(d) ==
  \E i \in 1..Len(d) : d[i] \in LowerOrDigit \cup Range(UpperChars)

\* C13: the name Present derives for a domain d is non-empty, lower-case and
\* of the form ^acme-[a-z0-9-]*[a-z0-9]$ or is "acme-", the latter only when d
\* has no letter and no digit; for "Example.COM." it is "acme-example-com".
C13_DerivedName ==
  \A p \in Procs :
    call[p].op = "Present"
    => LET n == obj[p].name
           d == call[p].ch.fqdn
       IN /\ WellFormedName(n)
          /\ n = AcmePrefix => ~HasAlnum(d)
          /\ d = ExampleCom => n = <<"a", "c", "m", "e", "-", "e", "x", "a", "m", "p", "l", "e", "-", "c", "o", "m">>

C13_Witness ==
  \E p \in Procs :
    /\ pc[p] = "PresentWrite"
    /\ call[p].ch.fqdn = ExampleCom
    /\ obj[p].name = <<"a", "c", "m", "e", "-", "e", "x", "a", "m", "p", "l", "e", "-", "c", "o", "m">>
    /\ obj[p].specName = <<"E", "x", "a", "m", "p", "l", "e", ".", "C", "O", "M">>

\* The degenerate case of C13: a domain of hyphens and dots only.
C13_WitnessDegenerate ==
  \E p \in Procs :
    /\ pc[p] = "PresentWrite"
    /\ call[p].ch.fqdn = <<"-", ".", ".">>
    /\ obj[p].name = AcmePrefix

\* The resource of the scenario, but for its name.
ScenarioResource(r) ==
  /\ r.ns = "default"
  /\ r.specType = "TXT"
  /\ r.specValue = "abc123"
  /\ r.specName =
       <<"_", "a", "c", "m", "e", "-", "c", "h", "a", "l", "l", "e", "n", "g", "e", ".", "f", "o", "o", ".", "e", "x", "a", "m", "p", "l", "e", ".", "c", "o", "m">>

\* The scenario's Present has created its resource where none was.
ScenarioDone(h) ==
  /\ h.op = "Present" /\ h.ch = ScenarioChallenge
  /\ h.ops # <<>> /\ h.ops[1].res = "NotFound"
  /\ h.ret = "nil"

\* C14 as stated: the scenario's resource is named
\* "acme-acme-challenge-foo-example-com".
C14_ScenarioUnderscoreStripped ==
  \A h \in Returned :
    ScenarioDone(h)
    => /\ Cardinality(h.after) = 1
       /\ \A r \in h.after :
            /\ ScenarioResource(r)
            /\ r.name =
                 <<"a", "c", "m", "e", "-", "a", "c", "m", "e", "-", "c", "h", "a", "l", "l", "e", "n", "g", "e", "-", "f", "o", "o", "-", "e", "x", "a", "m", "p", "l", "e", "-", "c", "o", "m">>

\* C14 as amended: the scenario's resource is named
\* "acme--acme-challenge-foo-example-com" (the underscore is replaced by a
\* hyphen), in namespace "default", with recordType "TXT", recordValue "abc123"
\* and recordName "_acme-challenge.foo.example.com".
C14_ScenarioUnderscoreReplaced ==
  \A h \in Returned :
    ScenarioDone(h)
    => /\ Cardinality(h.after) = 1
       /\ \A r \in h.after :
            /\ ScenarioResource(r)
            /\ r.name =
                 <<"a", "c", "m", "e", "-", "-", "a", "c", "m", "e", "-", "c", "h", "a", "l", "l", "e", "n", "g", "e", "-", "f", "o", "o", "-", "e", "x", "a", "m", "p", "l", "e", "-", "c", "o", "m">>

C14_Witness ==
  /\ \E h \in Returned : ScenarioDone(h) /\ h.after = store
  /\ Cardinality(store) = 1
  /\ \A r \in store : ScenarioResource(r)

\* C15: a Present with no config runs with empty labels and extra and never
\* returns the decode error (it reaches the store); a Present whose config is
\* present and malformed returns the decode error.
C15_LoadConfig ==
  /\ \A p \in Procs :
       (call[p].op = "Present" /\ call[p].ch.config.kind = "nil")
       => cfg[p].Labels = {} /\ cfg[p].Extra = {}
  /\ \A h \in Returned :
       h.op = "Present"
       => /\ h.ch.config.kind = "nil" => (h.ret # "ConfigDecodeError" /\ h.ops # <<>>)
          /\ Undecodable(h.ch.config) => h.ret = "ConfigDecodeError"

C15_Witness ==
  \E h \in Returned :
    /\ h.op = "Present" /\ h.ch.config = NilConfig /\ h.ch.fqdn = FqdnA
    /\ h.ret = "nil"
    /\ h.after # {}
    /\ \A r \in h.after : r.labels = {} /\ r.specExtra = {}

\* The other case of C15: a member of the wrong type beside a good one.
C15_WitnessMalformed ==
  \E h \in Returned :
    /\ h.op = "Present" /\ h.ret = "ConfigDecodeError"
    /\ h.ch.config = ObjectJSON(MapMember({<<"k", "v">>}), NumberMember)

\* What a config document says for labels and for extra: nothing when the
\* document is absent or null.
SaidLabels(raw) == IF raw.kind \in {"nil", "null"} THEN {} ELSE raw.labels.m
SaidExtra(raw) == IF raw.kind \in {"nil", "null"} THEN {} ELSE raw.extra.m

\* C16: after any successful Present(ch), whatever was stored at the derived
\* identity before, the stored resource's labels are exactly the config's
\* labels and its extra exactly the config's extra (entries the config does
\* not have are removed, not merged), and its recordValue is the token.
C16_ReplacedNotMerged ==
  \A h \in Returned :
    (h.op = "Present" /\ h.ret = "nil")
    => /\ Cardinality(h.after) = 1
       /\ \A r \in h.after :
            /\ r.labels = SaidLabels(h.ch.config)
            /\ r.specExtra = SaidExtra(h.ch.config)
            /\ r.specValue = h.ch.key

\* A successful Present found a resource whose labels and extra had entries
\* the config lacks, and whose value was another token.
C16_Witness ==
  \E h \in Returned :
    /\ h.op = "Present" /\ h.ret = "nil"
    /\ Len(h.ops) = 2 /\ h.ops[1].res = "nil" /\ h.ops[2].op = "Update"
    /\ h.ops[1].obj.labels \ SaidLabels(h.ch.config) # {}
    /\ h.ops[1].obj.specExtra \ SaidExtra(h.ch.config) # {}
    /\ h.ops[1].obj.specValue # h.ch.key

\* Two characters that are one letter or digit, in either case.
SameLetter(a, b) ==
  \/ a = b /\ a \in Range(UpperChars) \cup Range(LowerChars) \cup DigitChars
  \/ \E i \in DOMAIN UpperChars : {a, b} = {UpperChars[i], LowerChars[i]}

Alnum(c) == SameLetter(c, c)

\* d up to its last letter or digit.
Core(d) ==
  LET last == {i \in DOMAIN d : Alnum(d[i]) /\ \A j \in DOMAIN d : j > i => ~Alnum(d[j])}
  IN IF last = {} THEN <<>> ELSE SubSeq(d, 1, CHOOSE i \in last : TRUE)

\* Two distinct domains that differ only in letter case, in characters that
\* are neither letter nor digit, or in trailing such characters.
DifferOnlyFolded(d1, d2) ==
  /\ d1 # d2
  /\ Len(Core(d1)) = Len(Core(d2))
  /\ \A i \in DOMAIN Core(d1) :
       IF Alnum(Core(d1)[i]) THEN SameLetter(Core(d1)[i], Core(d2)[i])
       ELSE ~Alnum(Core(d2)[i])

\* Two Presents have returned success, the second run alone after the first,
\* for one owner and for two domains that differ only in folded characters.
CollidingPresents ==
  /\ Len(hist) = 2
  /\ hist[1].op = "Present" /\ hist[2].op = "Present"
  /\ hist[1].ret = "nil" /\ hist[2].ret = "nil"
  /\ hist[2].solo
  /\ hist[1].ch.ns = hist[2].ch.ns
  /\ DifferOnlyFolded(hist[1].ch.fqdn, hist[2].ch.fqdn)

\* C17: getRecordName is not injective: two distinct domains that differ only
\* in letter case, in characters replaced by "-" or in trimmed trailing ones
\* get the same resource name, so Presents for them under one owner address
\* one resource: the later one finds the earlier one's resource and updates
\* it, leaving its own recordName and recordValue in place of the earlier's.
C17_NamesCollide ==
  CollidingPresents
  => /\ getRecordName(hist[1].ch.fqdn) = getRecordName(hist[2].ch.fqdn)
     /\ hist[2].ops[1].res = "nil"
     /\ hist[2].ops[1].obj \in hist[1].after
     /\ hist[2].ops[2].op = "Update"
     /\ Cardinality(hist[2].after) = 1
     /\ \A r \in hist[2].after :
          /\ r.uid = hist[2].ops[1].obj.uid
          /\ IsRecordNameOf(r.specName, hist[2].ch.fqdn)
          /\ r.specValue = hist[2].ch.key

\* "a.b" was presented, then "A_b" with another token: the record of the
\* first is gone from the store.
C17_Witness ==
  /\ CollidingPresents
  /\ hist[1].ch.fqdn = DomAB /\ hist[2].ch.fqdn = DomAB2
  /\ hist[1].ch.key # hist[2].ch.key
  /\ hist[1].after \cap hist[2].after = {}
  /\ hist[1].after \cap store = {}

\* The same with a domain that differs in a trimmed trailing character.
C17_WitnessTrimmed ==
  /\ CollidingPresents
  /\ hist[1].ch.fqdn = DomAB3 /\ hist[2].ch.fqdn = DomAB2
  /\ hist[1].after \cap store = {}

\* ------------------------------------------------------------------ retries
\* Calls for one identity, overlapping or not, failed or not, and then, once
\* none is in flight, one more Present: the retry.
RetryChallenges ==
  { Challenge(FqdnA, "t1", "default", NilConfig),
    Challenge(FqdnA2, "t2", "default", ConfigKV),
    Challenge(FqdnA, "t1", "default", InvalidJSON) }

NextRetry ==
  \/ \E p \in Procs, ch \in RetryChallenges : PresentStart(p, ch)
  \/ \E p \in Procs : PresentGet(p)
  \/ \E p \in Procs : PresentWrite(p)
  \/ \E p \in Procs, ch \in RetryChallenges : CleanUpStart(p, ch)
  \/ \E p \in Procs : CleanUpGet(p)
  \/ \E p \in Procs : CleanUpDelete(p)
  \/ \E p \in Procs, ch \in RetryChallenges : PresentRetry(p, ch)

SpecRetry == Init /\ [][NextRetry]_vars

\* A Present that ran with no other call in flight and none of whose
\* requests the store failed for a reason of its own.
RanAlone(h) == h.op = "Present" /\ h.solo /\ Faultless(h)

Presented(h) ==
  /\ h.ret = "nil"
  /\ Cardinality(h.after) = 1
  /\ \A r \in h.after : r.specValue = h.ch.key

\* C18 as stated: whatever the calls before it left in the store, every
\* Present(ch) that runs alone against a store that accepts valid writes
\* returns success and leaves the resource present with its token.
C18_RetrySucceeds ==
  \A h \in Returned : RanAlone(h) => Presented(h)

\* C18 as amended: whatever the calls before it left in the store, every
\* Present(ch) whose configuration is absent or decodable and that runs alone
\* against a store that accepts valid writes returns success and leaves the
\* resource present with its token.
C18_DecodableRetrySucceeds ==
  \A h \in Returned :
    (RanAlone(h) /\ ~Undecodable(h.ch.config)) => Presented(h)

\* Two calls overlapped and the second to return was refused by the store;
\* the Present retried afterwards has succeeded.
C18_Witness ==
  /\ ncalls = MaxCalls + 1
  /\ Len(hist) = 2
  /\ ~hist[1].solo /\ hist[1].ret \in {"Conflict", "AlreadyExists", "NotFound"}
  /\ RanAlone(hist[2]) /\ Presented(hist[2])

\* The call before the retry was failed by the store itself.
C18_WitnessAfterFailure ==
  /\ ncalls = MaxCalls + 1
  /\ Len(hist) = 2
  /\ hist[1].ret = "Unavailable"
  /\ RanAlone(hist[2]) /\ Presented(hist[2])
  /\ hist[2].ops[1].res = "nil"

\* ------------------------------------------------------ concurrent CleanUps
\* CleanUp calls only, all for the identity of the leftover resource.
CleanUpChallenges ==
  { Challenge(FqdnA, "t1", "default", NilConfig),
    Challenge(FqdnA2, "t2", "default", ConfigKV) }

NextCleanUps ==
  \/ \E p \in Procs, ch \in CleanUpChallenges : CleanUpStart(p, ch)
  \/ \E p \in Procs : CleanUpGet(p)
  \/ \E p \in Procs : CleanUpDelete(p)

SpecCleanUps == Init /\ [][NextCleanUps]_vars

\* The call's request i is a Delete the store applied.
DeleteApplied(h) ==
  \E i \in DOMAIN h.ops : h.ops[i].op = "Delete" /\ h.ops[i].res = "nil"

\* The call's fetch found the resource and its Delete was answered not-found.
LostTheRace(h) ==
  /\ Len(h.ops) = 2
  /\ h.ops[1].op = "Get" /\ h.ops[1].res = "nil"
  /\ h.ops[2].op = "Delete" /\ h.ops[2].res = "NotFound"

\* C19: with CleanUp calls only, for one identity and in any interleaving:
\* once a CleanUp none of whose requests the store itself failed has
\* returned, the resource is absent, and stays so; the store applied at most
\* one delete; and a CleanUp whose fetch found the resource but whose delete
\* was answered not-found returns that error, not success.
C19_ConcurrentCleanUps ==
  /\ \A h \in Returned :
       /\ Faultless(h) => At(store, h.ch.ns, getRecordName(h.ch.fqdn)) = {}
       /\ LostTheRace(h) => h.ret = "NotFound"
  /\ Cardinality({i \in DOMAIN hist : DeleteApplied(hist[i])}) <= 1

\* Two CleanUps overlapped, both fetched the resource, the first deleted it
\* and the second has returned the not-found of its own delete.
C19_Witness ==
  /\ \A p \in Procs : ~InFlight(p)
  /\ Len(hist) = 2
  /\ DeleteApplied(hist[1])
  /\ ~hist[2].solo /\ LostTheRace(hist[2]) /\ hist[2].ret # "nil"
  /\ hist[2].ops[1].obj = Leftover
  /\ store = {}
====
